---- MODULE Spec2Model ----
(***************************************************************************)
(* A model of the url_service repository: the URL validator               *)
(* (util.ValidateURL), the short-code generator, the repository over the   *)
(* "url" table (pgx.UrlRepository) and the three handlers of               *)
(* service.URLServiceImpl (Shorten, Expand, ListUrls) with the detached    *)
(* click-count goroutine that Expand starts.                               *)
(***************************************************************************)
EXTENDS Integers, Sequences, FiniteSets, TLC

(***************************************************************************)
(* Strings.  A Go string is modelled as a sequence of runes; a rune is a   *)
(* one-character TLA+ string, except "NBSP", the rune U+00A0 (two bytes in *)
(* UTF-8, white space for strings.TrimSpace, not ASCII).  Candidate        *)
(* strings are built from tokens, each standing for a run of runes.        *)
(***************************************************************************)

\* The limit of ValidateURL's length check.
MaxURLLength == 2048

\* Length of the run of "a" that the token "LONG" stands for: with the
\* eight bytes of "https://" it makes a string of exactly MaxURLLength bytes.
LongRun == MaxURLLength - 8

\* Most tokens of a candidate string of the validator's specification.
MaxTokens == 3

Tokens == {"http://", "https://", "Http://", "ftp://", "a", "/", " ", "NBSP", "LONG"}

TokRunes(tok) ==
    CASE tok = "http://"  -> <<"h", "t", "t", "p", ":", "/", "/">>
      [] tok = "https://" -> <<"h", "t", "t", "p", "s", ":", "/", "/">>
      [] tok = "Http://"  -> <<"H", "t", "t", "p", ":", "/", "/">>
      [] tok = "ftp://"   -> <<"f", "t", "p", ":", "/", "/">>
      [] tok = "LONG"     -> [i \in 1..LongRun |-> "a"]
      [] OTHER            -> <<tok>>

RECURSIVE Runes(_)
Runes(toks) ==
    IF toks = <<>> THEN <<>> ELSE TokRunes(Head(toks)) \o Runes(Tail(toks))

\* len(s) of Go: the number of bytes of the UTF-8 encoding.
ByteLen(r) == Len(r) + Cardinality({i \in 1..Len(r) : r[i] = "NBSP"})

IsLetter(c) == c \in {"a", "f", "h", "p", "s", "t", "H"}

\* unicode.IsSpace on the runes of the alphabet.
IsSpace(c) == c \in {" ", "NBSP"}

\* Bytes below 0x80.
IsASCII(c) == c # "NBSP"

ToLower(r) == [i \in 1..Len(r) |-> IF r[i] = "H" THEN "h" ELSE r[i]]

HasPrefix(r, pre) == Len(r) >= Len(pre) /\ SubSeq(r, 1, Len(pre)) = pre

TrimPrefix(r, pre) == IF HasPrefix(r, pre) THEN SubSeq(r, Len(pre) + 1, Len(r)) ELSE r

TrimSpace(r) ==
    LET keep == {i \in 1..Len(r) : ~IsSpace(r[i])}
    IN  IF keep = {} THEN <<>>
        ELSE SubSeq(r, CHOOSE i \in keep : \A j \in keep : i <= j,
                       CHOOSE i \in keep : \A j \in keep : j <= i)

\* Index of the first rune equal to c at or after position from, 0 if none.
IndexFrom(r, c, from) ==
    LET hits == {i \in from..Len(r) : r[i] = c}
    IN  IF hits = {} THEN 0 ELSE CHOOSE i \in hits : \A j \in hits : i <= j

LastIndex(r, c) ==
    LET hits == {i \in 1..Len(r) : r[i] = c}
    IN  IF hits = {} THEN 0 ELSE CHOOSE i \in hits : \A j \in hits : j <= i

(***************************************************************************)
(* net/url.ParseRequestURI, as far as ValidateURL reads its result: whether *)
(* it fails, the Scheme and the Host.  The alphabet has no control bytes,   *)
(* no "?", "@", "[", "%" and no digits, so the branches of the parser for   *)
(* those are not reached.                                                   *)
(***************************************************************************)

\* getScheme: the letters before the first ":", when only letters precede it.
GetScheme(r) ==
    LET stops == {i \in 1..Len(r) : ~IsLetter(r[i])}
        i == IF stops = {} THEN 0 ELSE CHOOSE k \in stops : \A j \in stops : k <= j
    IN  IF i = 0 \/ r[i] # ":" THEN [err |-> FALSE, scheme |-> <<>>, rest |-> r]
        ELSE IF i = 1 THEN [err |-> TRUE, scheme |-> <<>>, rest |-> <<>>]
        ELSE [err |-> FALSE, scheme |-> SubSeq(r, 1, i - 1), rest |-> SubSeq(r, i + 1, Len(r))]

\* validOptionalPort: empty, or ":" followed by digits (the alphabet has none).
ValidOptionalPort(port) == port = <<>> \/ port = <<":">>

\* parseHost: the port after the last ":" must be valid, and no ASCII byte
\* of the host may be one that needs escaping (of the alphabet: " " and "/").
ValidHost(host) ==
    /\ LET i == LastIndex(host, ":")
       IN  i = 0 \/ ValidOptionalPort(SubSeq(host, i, Len(host)))
    /\ \A k \in 1..Len(host) :
          IsASCII(host[k]) => (IsLetter(host[k]) \/ host[k] = ":")

ParseRequestURI(r) ==
    LET bad == [err |-> TRUE, scheme |-> <<>>, host |-> <<>>]
        s == GetScheme(r)
        scheme == ToLower(s.scheme)
        rest == s.rest
    IN  IF r = <<>> \/ s.err THEN bad
        ELSE IF ~HasPrefix(rest, <<"/">>)
             THEN IF scheme # <<>>
                  THEN [err |-> FALSE, scheme |-> scheme, host |-> <<>>]  \* opaque
                  ELSE bad                                    \* invalid URI for request
        ELSE IF scheme # <<>> /\ HasPrefix(rest, <<"/", "/">>)
             THEN LET after == SubSeq(rest, 3, Len(rest))
                      slash == IndexFrom(after, "/", 1)
                      authority == IF slash = 0 THEN after ELSE SubSeq(after, 1, slash - 1)
                  IN  IF ValidHost(authority)
                      THEN [err |-> FALSE, scheme |-> scheme, host |-> authority]
                      ELSE bad
        ELSE [err |-> FALSE, scheme |-> scheme, host |-> <<>>]

(***************************************************************************)
(* util.ValidateURL.  NoError stands for the nil error; the other results  *)
(* are the messages of the errors it returns.                              *)
(***************************************************************************)
NoError == "nil"
ErrEmpty == "URL cannot be empty"
ErrMalformed == "invalid URL format"
ErrUnsupportedScheme == "URL must use http or https scheme"
ErrMissingHost == "URL must have a valid host"
ErrTooLong == "URL exceeds maximum length of 2048 characters"
ErrSchemeOnly == "URL must contain more than just the scheme"

HttpPrefix == <<"h", "t", "t", "p", ":", "/", "/">>
HttpsPrefix == <<"h", "t", "t", "p", "s", ":", "/", "/">>

\* The remainder that the last check of ValidateURL compares with "".
AfterScheme(r) == TrimSpace(TrimPrefix(TrimPrefix(r, HttpsPrefix), HttpPrefix))

\* A misplaced length check: before the host check instead of after it.
ValidateURLLengthFirst(urlStr) ==
    LET r == Runes(urlStr)
        parsedURL == ParseRequestURI(r)
    IN  IF r = <<>> THEN ErrEmpty
        ELSE IF parsedURL.err THEN ErrMalformed
        ELSE IF parsedURL.scheme # <<"h", "t", "t", "p">>
                /\ parsedURL.scheme # <<"h", "t", "t", "p", "s">> THEN ErrUnsupportedScheme
        ELSE IF ByteLen(r) > MaxURLLength THEN ErrTooLong
        ELSE IF parsedURL.host = <<>> THEN ErrMissingHost
        ELSE IF AfterScheme(r) = <<>> THEN ErrSchemeOnly
        ELSE NoError

\* The host check left out.
ValidateURLHostUnchecked(urlStr) ==
    LET r == Runes(urlStr)
        parsedURL == ParseRequestURI(r)
    IN  IF r = <<>> THEN ErrEmpty
        ELSE IF parsedURL.err THEN ErrMalformed
        ELSE IF parsedURL.scheme # <<"h", "t", "t", "p">>
                /\ parsedURL.scheme # <<"h", "t", "t", "p", "s">> THEN ErrUnsupportedScheme
        ELSE IF ByteLen(r) > MaxURLLength THEN ErrTooLong
        ELSE IF AfterScheme(r) = <<>> THEN ErrSchemeOnly
        ELSE NoError

ValidateURL(urlStr) ==
    LET r == Runes(urlStr)
        parsedURL == ParseRequestURI(r)
    IN  IF r = <<>> THEN ErrEmpty
        ELSE IF parsedURL.err THEN ErrMalformed
        ELSE IF parsedURL.scheme # <<"h", "t", "t", "p">>
                /\ parsedURL.scheme # <<"h", "t", "t", "p", "s">> THEN ErrUnsupportedScheme
        ELSE IF parsedURL.host = <<>> THEN ErrMissingHost
        ELSE IF ByteLen(r) > MaxURLLength THEN ErrTooLong
        ELSE IF AfterScheme(r) = <<>> THEN ErrSchemeOnly
        ELSE NoError

(***************************************************************************)
(* generateShortCode.  SHA-256 itself is not computed: Sum256 is a digest   *)
(* of the string's byte length alone, so two strings of equal length have  *)
(* the same digest.  They stand for the collisions that the 60 bits kept   *)
(* of the real digest must have.  The encoding and the cut to ten          *)
(* characters are those of the code; a character of the code is modelled   *)
(* by its index in the base64 alphabet.                                     *)
(***************************************************************************)
DigestSize == 32
ShortCodeLen == 10

Sum256(r) == [i \in 1..DigestSize |-> (ByteLen(r) * 37 + i * 11) % 256]

\* base64.RawURLEncoding.EncodeToString: six bits a character, no padding.
EncodeToString(b) ==
    LET n == (Len(b) * 8 + 5) \div 6
        Sextet(k) ==
            LET start == 6 * (k - 1)
                idx == start \div 8 + 1
                off == start % 8
                v == b[idx] * 256 + (IF idx + 1 <= Len(b) THEN b[idx + 1] ELSE 0)
            IN  (v \div (2 ^ (10 - off))) % 64
    IN  [k \in 1..n |-> Sextet(k)]

\* The cut to ten characters left out.
generateShortCodeUncut(url) == EncodeToString(Sum256(Runes(url)))

generateShortCode(url) ==
    LET encoded == EncodeToString(Sum256(Runes(url)))
    IN  IF Len(encoded) > ShortCodeLen THEN SubSeq(encoded, 1, ShortCodeLen) ELSE encoded

(***************************************************************************)
(* The service.                                                            *)
(***************************************************************************)

\* Request handlers that run concurrently.  Each serves Shorten; Expand and
\* ListUrls are served by the Resolvers: Expand makes one repository call
\* before it returns and ListUrls only reads, so a second handler of theirs
\* would add responses but no behaviour of the table.
Procs == {"p1", "p2"}
Resolvers == {"p1"}

\* The clock runs from 1 to MaxClock; 0 is the zero time.Time.
MaxClock == 2

\* Most Expand calls that find their record, over a run.
MaxExpands == 2

\* Clock ticks in one second, the precision of time.RFC3339.
TicksPerSecond == 2

MaxInt32 == 2147483647

U1 == <<"https://", "a">>
U2 == <<"http://", "a", "/">>
U3 == <<"https://", "a", "/">>
U4 == <<"https://", "a", "/", "a">>

\* The long URLs that Shorten is called with: three valid ones, U1 and U2
\* with the same short code, and two that ValidateURL rejects.
ShortenInputs == {U1, U2, U3, <<>>, <<"ftp://", "a">>}

\* ValidateURL and generateShortCode on these inputs, computed once.
\* The long URLs in the listing runs, with three different short codes.
ListedUrls == {U1, U3, U4}

Urls == ShortenInputs \cup ListedUrls

Validated == [u \in Urls |-> ValidateURL(u)]
ValidUrls == {u \in ShortenInputs : Validated[u] = NoError}
ShortCodeOf == [u \in Urls |-> generateShortCode(u)]

\* The short codes that Expand is called with: the empty string and the
\* codes of the valid URLs (unknown until the URL has been shortened).
ExpandInputs == {<<>>} \cup {ShortCodeOf[u] : u \in ValidUrls}

\* The pages that ListUrls is asked for; the last one makes the int32
\* product of the offset wrap around.
Pages == {1, MaxInt32}
PageSizes == {2}

\* The listing runs: their clock, and the pages and page sizes asked for,
\* below, at and above the limits of ListUrls.
ListClock == 3
ListPages == {0, 1, 2}
ListPageSizes == {0, 1, 10, 100, 500}

VARIABLES
    store,      \* the rows of table url
    now,        \* the clock read by time.Now() and by NOW()
    pc,         \* where each handler stands: "idle", "save", "rows", "done"
    req,        \* the request each handler serves
    local,      \* the handler's local variables between two repository calls
    resp,       \* the response (or error) of the handler's last request
    calls,      \* the repository and generator calls of the handler's request
    cause,      \* why the request failed, when it did after its validation
    overlap,    \* the handlers whose Shorten ran between this Shorten's GetByUrl and Save
    afterOk,    \* whether this Shorten began after a Shorten of the same URL succeeded
    firstOk,    \* per long URL, the first successful Shorten response
    pending,    \* per short code, the detached goroutines not yet run
    nExpands,   \* per short code, the Expand calls so far that found its record
    cand,       \* the candidate string given to the validator
    verdict,    \* what ValidateURL returned for it, "pending" before
    horizon,    \* the last instant of the clock that the run covers
    codes,      \* what the invocations of generateShortCode on cand returned
    goCtx,      \* per short code, the contexts given to the goroutines started
    ctxDone     \* whether the context of the handler's request has ended

vars == <<store, now, pc, req, local, resp, calls, cause, overlap, afterOk, firstOk,
          pending, nExpands, cand, verdict, horizon, codes, goCtx, ctxDone>>

ZeroTime == 0
NoResp == [ok |-> FALSE, err |-> "none"]
NoReq == [op |-> "none"]
NoLocal == [none |-> TRUE]
Failure(msg) == [ok |-> FALSE, err |-> msg]

UrlId(t) == <<"url_", t>>

\* time.Format(time.RFC3339): the time cut to whole seconds.
FormatRFC3339(t) == t \div TicksPerSecond

\* The int32 product of a (0 <= a < 2^31) and b (0 <= b < 2^15), which wraps
\* around: it is computed on 16-bit halves, hi being the upper half of the
\* 32-bit result and lo the lower.
Mul32(a, b) ==
    LET lowProd == (a % 65536) * b
        lo == lowProd % 65536
        hi == ((a \div 65536) * b + lowProd \div 65536) % 65536
    IN  IF hi >= 32768 THEN (hi - 65536) * 65536 + lo ELSE hi * 65536 + lo

\* The sum of a function of numbers.
RECURSIVE SumOver(_, _)
SumOver(f, S) ==
    IF S = {} THEN 0
    ELSE LET x == CHOOSE y \in S : TRUE IN f[x] + SumOver(f, S \ {x})

Total(f) == SumOver(f, DOMAIN f)

Min(a, b) == IF a < b THEN a ELSE b

ServiceStart ==
    /\ store = {}
    /\ now = 1
    /\ pc = [p \in Procs |-> "idle"]
    /\ req = [p \in Procs |-> NoReq]
    /\ local = [p \in Procs |-> NoLocal]
    /\ resp = [p \in Procs |-> NoResp]
    /\ calls = [p \in Procs |-> {}]
    /\ cause = [p \in Procs |-> "none"]
    /\ overlap = [p \in Procs |-> {}]
    /\ afterOk = [p \in Procs |-> FALSE]
    /\ firstOk = [u \in Urls |-> NoResp]
    /\ pending = [c \in ExpandInputs |-> 0]
    /\ nExpands = [c \in ExpandInputs |-> 0]
    /\ goCtx = [c \in ExpandInputs |-> {}]
    /\ ctxDone = [p \in Procs |-> FALSE]

Init ==
    /\ ServiceStart
    /\ cand = <<>>
    /\ verdict = "pending"
    /\ horizon = MaxClock
    /\ codes = <<>>

\* time passes
Tick ==
    /\ now < horizon
    /\ now' = now + 1
    /\ UNCHANGED <<store, pc, req, local, resp, calls, cause, overlap, afterOk,
                   firstOk, pending, nExpands, cand, verdict, horizon, codes, goCtx, ctxDone>>

(***************************************************************************)
(* The repository (pgx.UrlRepository) over table url.                      *)
(***************************************************************************)

\* GetByUrl, GetByShortUrl: the rows that the WHERE clause selects.
GetByUrlNoRows(originalUrl) == {}
GetByUrl(originalUrl) == {row \in store : row.url = originalUrl}
\* The WHERE clause left out.
GetByShortUrlAnyRow(shortUrl) == store

GetByShortUrl(shortUrl) == {row \in store : row.shortUrl = shortUrl}

\* The constraints of the table: url_id is the primary key, short_url is unique.
ConflictPrimaryKeyOnly(row) == \E r \in store : r.urlId = row.urlId
ConflictShortUrlOnly(row) == \E r \in store : r.shortUrl = row.shortUrl
Conflict(row) == \E r \in store : r.urlId = row.urlId \/ r.shortUrl = row.shortUrl

\* The UPDATE of UpdateClickCount, on one row.
\* The UPDATE also rewrites created_at.
ClickedAndRecreated(row) ==
    [row EXCEPT !.clickCount = row.clickCount + 1, !.lastAccessedAt = now, !.createdAt = now]

\* The UPDATE leaves last_accessed_at as it is.
ClickedNoAccessTime(row) == [row EXCEPT !.clickCount = row.clickCount + 1]

\* The count written is the count that the first Expand read, plus one.
ClickedFromStaleRead(row) == [row EXCEPT !.clickCount = 1, !.lastAccessedAt = now]
ClickedDown(row) == [row EXCEPT !.clickCount = row.clickCount - 1, !.lastAccessedAt = now]
ClickedNoCount(row) == [row EXCEPT !.lastAccessedAt = now]
Clicked(row) == [row EXCEPT !.clickCount = row.clickCount + 1, !.lastAccessedAt = now]

\* The orders in which ORDER BY created_at DESC may return the rows.
Ordered ==
    {s \in [1..Cardinality(store) -> store] :
        /\ \A i, j \in DOMAIN s : i # j => s[i] # s[j]
        /\ \A i, j \in DOMAIN s : i < j => s[i].createdAt >= s[j].createdAt}

(***************************************************************************)
(* Shorten.                                                                *)
(***************************************************************************)

\* A handler takes a request, with a context of its own; what it called and
\* met before is forgotten.
Begin(p, r, called) ==
    /\ pc[p] \in {"idle", "done"}
    /\ req' = [req EXCEPT ![p] = r]
    /\ calls' = [calls EXCEPT ![p] = called]
    /\ ctxDone' = [ctxDone EXCEPT ![p] = FALSE]

\* why is "none"; "unavailable" when a repository call failed for a reason
\* of the store's; for a Save that met a constraint, "race" when a row of
\* the same URL is stored, else "code" when a row has the same short code,
\* else "id".
Finish(p, response, why) ==
    /\ pc' = [pc EXCEPT ![p] = "done"]
    /\ resp' = [resp EXCEPT ![p] = response]
    /\ cause' = [cause EXCEPT ![p] = why]
    /\ local' = [local EXCEPT ![p] = NoLocal]

\* What Shorten does with its argument before it touches the repository.
SkipValidation(url) == NoError
CheckURL(url) == Validated[url]

\* Bookkeeping of which Shorten calls ran concurrently, and which began
\* after a success for the same URL.
BeginShorten(p, url, called, inFlight) ==
    /\ Begin(p, [op |-> "Shorten", url |-> url], called)
    /\ LET others == IF inFlight THEN {q \in Procs \ {p} : pc[q] = "save"} ELSE {}
       IN  overlap' = [q \in Procs |->
                          IF q = p THEN others
                          ELSE IF q \in others THEN overlap[q] \cup {p}
                          ELSE overlap[q]]
    /\ afterOk' = [afterOk EXCEPT ![p] = firstOk[url] # NoResp]

ShortenInvalid(p, url) ==
    /\ CheckURL(url) # NoError
    /\ BeginShorten(p, url, {}, FALSE)
    /\ Finish(p, Failure(CheckURL(url)), "none")
    /\ UNCHANGED <<store, now, firstOk, pending, nExpands, cand, verdict, horizon, codes, goCtx>>

ShortenLookupFails(p, url) ==
    /\ CheckURL(url) = NoError
    /\ BeginShorten(p, url, {"GetByUrl"}, FALSE)
    /\ Finish(p, Failure("failed to check existing URL"), "unavailable")
    /\ UNCHANGED <<store, now, firstOk, pending, nExpands, cand, verdict, horizon, codes, goCtx>>

ShortenExisting(p, url) ==
    /\ CheckURL(url) = NoError
    /\ BeginShorten(p, url, {"GetByUrl"}, FALSE)
    /\ \E existingUrl \in GetByUrl(url) :
          Finish(p, [ok |-> TRUE, urlId |-> existingUrl.urlId,
                     shortUrl |-> existingUrl.shortUrl], "none")
    /\ UNCHANGED <<store, now, firstOk, pending, nExpands, cand, verdict, horizon, codes, goCtx>>

\* No row: the code and the id are made, and the clock is read twice.
ShortenNew(p, url) ==
    /\ CheckURL(url) = NoError
    /\ GetByUrl(url) = {}
    /\ BeginShorten(p, url, {"GetByUrl", "generateShortCode"}, TRUE)
    /\ \E t \in {now, Min(now + 1, horizon)} :
          /\ now' = t
          /\ local' = [local EXCEPT ![p] =
                 [url |-> url, urlId |-> UrlId(now), shortUrl |-> ShortCodeOf[url],
                  createdAt |-> t, clickCount |-> 0, lastAccessedAt |-> ZeroTime]]
    /\ pc' = [pc EXCEPT ![p] = "save"]
    /\ resp' = [resp EXCEPT ![p] = NoResp]
    /\ cause' = [cause EXCEPT ![p] = "none"]
    /\ UNCHANGED <<store, firstOk, pending, nExpands, cand, verdict, horizon, codes, goCtx>>

\* What Shorten answers when Save returns an error.
SaveErrorIgnored(urlModel) ==
    [ok |-> TRUE, urlId |-> urlModel.urlId, shortUrl |-> urlModel.shortUrl]
SaveError(urlModel) == Failure("failed to save URL")

\* Save: the INSERT fails (the store is unavailable), meets a constraint, or
\* commits.
SaveFails(p) ==
    /\ pc[p] = "save"
    /\ Finish(p, SaveError(local[p]), "unavailable")
    /\ calls' = [calls EXCEPT ![p] = @ \cup {"Save"}]
    /\ UNCHANGED <<store, now, req, overlap, afterOk, firstOk, pending,
                   nExpands, cand, verdict, horizon, codes, goCtx, ctxDone>>

SaveConflict(p) ==
    /\ pc[p] = "save"
    /\ Conflict(local[p])
    /\ Finish(p, SaveError(local[p]),
              IF GetByUrl(local[p].url) # {} THEN "race"
              ELSE IF GetByShortUrl(local[p].shortUrl) # {} THEN "code" ELSE "id")
    /\ calls' = [calls EXCEPT ![p] = @ \cup {"Save"}]
    /\ UNCHANGED <<store, now, req, overlap, afterOk, firstOk, pending,
                   nExpands, cand, verdict, horizon, codes, goCtx, ctxDone>>

SaveOk(p) ==
    /\ pc[p] = "save"
    /\ ~Conflict(local[p])
    /\ store' = store \cup {local[p]}
    /\ Finish(p, [ok |-> TRUE, urlId |-> local[p].urlId, shortUrl |-> local[p].shortUrl], "none")
    /\ calls' = [calls EXCEPT ![p] = @ \cup {"Save"}]
    /\ firstOk' = [firstOk EXCEPT ![local[p].url] =
                      IF @ = NoResp
                      THEN [ok |-> TRUE, urlId |-> local[p].urlId, shortUrl |-> local[p].shortUrl]
                      ELSE @]
    /\ UNCHANGED <<now, req, overlap, afterOk, pending, nExpands, cand, verdict, horizon,
                   codes, goCtx, ctxDone>>

Shorten(p, url) ==
    \/ ShortenInvalid(p, url)
    \/ ShortenLookupFails(p, url)
    \/ ShortenExisting(p, url)
    \/ ShortenNew(p, url)

ShortenSave(p) ==
    \/ SaveFails(p)
    \/ SaveConflict(p)
    \/ SaveOk(p)

(***************************************************************************)
(* Expand, and the goroutine it starts.                                    *)
(***************************************************************************)
BeginOther(p, r, called) ==
    /\ Begin(p, r, called)
    /\ overlap' = [overlap EXCEPT ![p] = {}]
    /\ afterOk' = [afterOk EXCEPT ![p] = FALSE]

\* The first check of Expand.
NeverEmpty(shortUrl) == FALSE
IsEmpty(shortUrl) == shortUrl = <<>>

ExpandEmpty(p, shortUrl) ==
    /\ IsEmpty(shortUrl)
    /\ BeginOther(p, [op |-> "Expand", shortUrl |-> shortUrl], {})
    /\ Finish(p, Failure("short URL cannot be empty"), "none")
    /\ UNCHANGED <<store, now, firstOk, pending, nExpands, cand, verdict, horizon, codes, goCtx>>

ExpandFetchFails(p, shortUrl) ==
    /\ ~IsEmpty(shortUrl)
    /\ BeginOther(p, [op |-> "Expand", shortUrl |-> shortUrl], {"GetByShortUrl"})
    /\ Finish(p, Failure("failed to fetch URL"), "unavailable")
    /\ UNCHANGED <<store, now, firstOk, pending, nExpands, cand, verdict, horizon, codes, goCtx>>

ExpandNotFound(p, shortUrl) ==
    /\ ~IsEmpty(shortUrl)
    /\ GetByShortUrl(shortUrl) = {}
    /\ BeginOther(p, [op |-> "Expand", shortUrl |-> shortUrl], {"GetByShortUrl"})
    /\ Finish(p, Failure("short URL not found"), "none")
    /\ UNCHANGED <<store, now, firstOk, pending, nExpands, cand, verdict, horizon, codes, goCtx>>

\* The click count of the response: that of the row as it was read.
ClickCountAfterUpdate(urlData) == urlData.clickCount + 1
ResponseClickCount(urlData) == urlData.clickCount

\* The row is found: the goroutine is started and the response is built
\* from the row as read.
\* The context that the goroutine of Expand gives to UpdateClickCount:
\* context.Background(), or (a mistake) the context of handler p's request.
RequestContext(p) == p
GoroutineContext(p) == "background"

\* A context has ended: the background context never does.
CtxEnded(ctx) == ctx \in Procs /\ ctxDone[ctx]

\* The goroutines of a short code after the go statement of Expand.
SpawnedTwice(running) == running + 2
Spawned(running) == running + 1

ExpandFound(p, shortUrl) ==
    /\ ~IsEmpty(shortUrl)
    /\ Total(nExpands) < MaxExpands
    /\ BeginOther(p, [op |-> "Expand", shortUrl |-> shortUrl], {"GetByShortUrl"})
    /\ \E urlData \in GetByShortUrl(shortUrl) :
          Finish(p, [ok |-> TRUE, originalUrl |-> urlData.url,
                     clickCount |-> ResponseClickCount(urlData),
                     createdAt |-> FormatRFC3339(urlData.createdAt)], "none")
    /\ pending' = [pending EXCEPT ![shortUrl] = Spawned(@)]
    /\ goCtx' = [goCtx EXCEPT ![shortUrl] = @ \cup {GoroutineContext(p)}]
    /\ nExpands' = [nExpands EXCEPT ![shortUrl] = @ + 1]
    /\ UNCHANGED <<store, now, firstOk, cand, verdict, horizon, codes>>

Expand(p, shortUrl) ==
    \/ ExpandEmpty(p, shortUrl)
    \/ ExpandFetchFails(p, shortUrl)
    \/ ExpandNotFound(p, shortUrl)
    \/ ExpandFound(p, shortUrl)

\* The goroutine's UpdateClickCount: the UPDATE runs on every row with the
\* short code, with NOW() as last_accessed_at.
UpdateClickCountOk(shortUrl) ==
    /\ pending[shortUrl] > 0
    /\ \E ctx \in goCtx[shortUrl] : ~CtxEnded(ctx)
    /\ pending' = [pending EXCEPT ![shortUrl] = @ - 1]
    /\ store' = {IF row.shortUrl = shortUrl THEN Clicked(row) ELSE row : row \in store}
    /\ UNCHANGED <<now, pc, req, local, resp, calls, cause, overlap, afterOk, firstOk,
                   nExpands, cand, verdict, horizon, codes, goCtx, ctxDone>>

\* The context of the request that handler p has answered ends: gRPC
\* cancels it when the handler returns, and the caller may go away.
RequestEnds(p) ==
    /\ pc[p] = "done"
    /\ ~ctxDone[p]
    /\ ctxDone' = [ctxDone EXCEPT ![p] = TRUE]
    /\ UNCHANGED <<store, now, pc, req, local, resp, calls, cause, overlap, afterOk,
                   firstOk, pending, nExpands, cand, verdict, horizon, codes, goCtx>>

\* The UPDATE fails: the error is logged and the click is lost.
UpdateClickCountFails(shortUrl) ==
    /\ pending[shortUrl] > 0
    /\ pending' = [pending EXCEPT ![shortUrl] = @ - 1]
    /\ UNCHANGED <<store, now, pc, req, local, resp, calls, cause, overlap, afterOk,
                   firstOk, nExpands, cand, verdict, horizon, codes, goCtx, ctxDone>>

(***************************************************************************)
(* ListUrls: the count and the page are two queries of the repository.     *)
(***************************************************************************)
\* The cap of the page size left out.
NormalPageSizeUncapped(pageSize) == IF pageSize < 1 THEN 10 ELSE pageSize

NormalPage(page) == IF page < 1 THEN 1 ELSE page

NormalPageSize(pageSize) ==
    IF pageSize < 1 THEN 10 ELSE IF pageSize > 100 THEN 100 ELSE pageSize

\* int((page - 1) * pageSize): the product is taken in int32.
Offset(page, pageSize) == Mul32(page - 1, pageSize)

UrlInfo(row) ==
    [urlId |-> row.urlId, originalUrl |-> row.url, shortUrl |-> row.shortUrl,
     clickCount |-> row.clickCount, createdAt |-> FormatRFC3339(row.createdAt),
     lastAccessedAt |-> IF row.lastAccessedAt = ZeroTime THEN ""
                        ELSE FormatRFC3339(row.lastAccessedAt)]

ListRequest(page, pageSize) == [op |-> "ListUrls", page |-> page, pageSize |-> pageSize]

ListCountFails(p, page, pageSize) ==
    /\ BeginOther(p, ListRequest(page, pageSize), {"List"})
    /\ Finish(p, Failure("failed to list URLs"), "unavailable")
    /\ UNCHANGED <<store, now, firstOk, pending, nExpands, cand, verdict, horizon, codes, goCtx>>

\* SELECT COUNT(*) answers; the page is still to be read.
ListCount(p, page, pageSize) ==
    /\ Begin(p, ListRequest(page, pageSize), {"List"})
    /\ overlap' = [overlap EXCEPT ![p] = {}]
    /\ afterOk' = [afterOk EXCEPT ![p] = FALSE]
    /\ local' = [local EXCEPT ![p] =
           [page |-> NormalPage(page), pageSize |-> NormalPageSize(pageSize),
            offset |-> Offset(NormalPage(page), NormalPageSize(pageSize)),
            limit |-> NormalPageSize(pageSize), totalCount |-> Cardinality(store)]]
    /\ pc' = [pc EXCEPT ![p] = "rows"]
    /\ resp' = [resp EXCEPT ![p] = NoResp]
    /\ cause' = [cause EXCEPT ![p] = "none"]
    /\ UNCHANGED <<store, now, firstOk, pending, nExpands, cand, verdict, horizon, codes, goCtx>>

ListRowsFails(p) ==
    /\ pc[p] = "rows"
    /\ Finish(p, Failure("failed to list URLs"), "unavailable")
    /\ UNCHANGED <<store, now, req, calls, overlap, afterOk, firstOk, pending, nExpands,
                   cand, verdict, horizon, codes, goCtx, ctxDone>>

\* The database rejects a negative OFFSET.
ListRowsNegativeOffset(p) ==
    /\ pc[p] = "rows"
    /\ local[p].offset < 0
    /\ Finish(p, Failure("failed to list URLs"), "none")
    /\ UNCHANGED <<store, now, req, calls, overlap, afterOk, firstOk, pending, nExpands,
                   cand, verdict, horizon, codes, goCtx, ctxDone>>

ListRowsOk(p) ==
    /\ pc[p] = "rows"
    /\ local[p].offset >= 0
    /\ \E s \in Ordered :
          LET last == Min(local[p].offset + local[p].limit, Len(s))
              rows == IF local[p].offset >= Len(s) THEN <<>>
                      ELSE SubSeq(s, local[p].offset + 1, last)
          IN  Finish(p, [ok |-> TRUE, urls |-> [i \in DOMAIN rows |-> UrlInfo(rows[i])],
                         totalCount |-> local[p].totalCount, page |-> local[p].page,
                         pageSize |-> local[p].pageSize], "none")
    /\ UNCHANGED <<store, now, req, calls, overlap, afterOk, firstOk, pending, nExpands,
                   cand, verdict, horizon, codes, goCtx, ctxDone>>

ListUrls(p, page, pageSize) ==
    \/ ListCountFails(p, page, pageSize)
    \/ ListCount(p, page, pageSize)

ListRows(p) ==
    \/ ListRowsFails(p)
    \/ ListRowsNegativeOffset(p)
    \/ ListRowsOk(p)

(***************************************************************************)
(* The specification of the service.                                       *)
(***************************************************************************)
Next ==
    \/ Tick
    \/ \E p \in Procs, url \in ShortenInputs : Shorten(p, url)
    \/ \E p \in Procs : ShortenSave(p)
    \/ \E p \in Resolvers, shortUrl \in ExpandInputs : Expand(p, shortUrl)
    \/ \E shortUrl \in ExpandInputs : UpdateClickCountOk(shortUrl)
    \/ \E shortUrl \in ExpandInputs : UpdateClickCountFails(shortUrl)
    \/ \E p \in Resolvers, page \in Pages, pageSize \in PageSizes : ListUrls(p, page, pageSize)
    \/ \E p \in Resolvers : ListRows(p)

Spec == Init /\ [][Next]_vars

(***************************************************************************)
(* The specification of the validator alone: ValidateURL is applied to     *)
(* every string of at most MaxTokens tokens.                               *)
(***************************************************************************)
Candidates == UNION {[1..n -> Tokens] : n \in 0..MaxTokens}

InitValidate ==
    /\ ServiceStart
    /\ cand \in Candidates
    /\ verdict = "pending"
    /\ horizon = MaxClock
    /\ codes = <<>>

Validate ==
    /\ verdict = "pending"
    /\ verdict' = ValidateURL(cand)
    /\ UNCHANGED <<store, now, pc, req, local, resp, calls, cause, overlap, afterOk,
                   firstOk, pending, nExpands, cand, horizon, codes, goCtx, ctxDone>>

NextValidate == Validate

SpecValidate == InitValidate /\ [][NextValidate]_vars

(***************************************************************************)
(* The service over a store that does not fail: every query and statement  *)
(* of the repository answers, and the goroutine of an Expand, once         *)
(* started, is scheduled (the process does not exit under it).             *)
(***************************************************************************)
LiveNext ==
    \/ Tick
    \/ \E p \in Procs, url \in ValidUrls : ShortenExisting(p, url)
    \/ \E p \in Procs, url \in ValidUrls : ShortenNew(p, url)
    \/ \E p \in Procs : SaveConflict(p)
    \/ \E p \in Procs : SaveOk(p)
    \/ \E p \in Resolvers, shortUrl \in ExpandInputs : ExpandEmpty(p, shortUrl)
    \/ \E p \in Resolvers, shortUrl \in ExpandInputs : ExpandNotFound(p, shortUrl)
    \/ \E p \in Resolvers, shortUrl \in ExpandInputs : ExpandFound(p, shortUrl)
    \/ \E shortUrl \in ExpandInputs : UpdateClickCountOk(shortUrl)

LiveSpec ==
    /\ Init
    /\ [][LiveNext]_vars
    /\ \A shortUrl \in ExpandInputs : WF_vars(UpdateClickCountOk(shortUrl))

(***************************************************************************)
(* The specification of the generator alone: generateShortCode is invoked  *)
(* MaxInvocations times on every string of at most MaxTokens tokens.       *)
(***************************************************************************)
MaxInvocations == 2

Generate ==
    /\ Len(codes) < MaxInvocations
    /\ codes' = Append(codes, generateShortCode(cand))
    /\ UNCHANGED <<store, now, pc, req, local, resp, calls, cause, overlap, afterOk,
                   firstOk, pending, nExpands, cand, verdict, horizon, goCtx, ctxDone>>

NextGenerate == Generate

SpecGenerate == InitValidate /\ [][NextGenerate]_vars

(***************************************************************************)
(* Listing runs: handler p2 creates records, handler p1 serves one         *)
(* ListUrls call, and once it has answered p2 serves ListUrls calls for    *)
(* the page that follows, with the same page size.                         *)
(***************************************************************************)
InitList ==
    /\ ServiceStart
    /\ cand = <<>>
    /\ verdict = "pending"
    /\ horizon = ListClock
    /\ codes = <<>>

NextList ==
    \/ Tick
    \/ \E url \in ListedUrls : ShortenNew("p2", url)
    \/ SaveConflict("p2")
    \/ SaveOk("p2")
    \/ \E page \in ListPages, pageSize \in ListPageSizes :
          pc["p1"] = "idle" /\ ListCount("p1", page, pageSize)
    \/ /\ pc["p1"] = "done" /\ resp["p1"].ok
       /\ ListCount("p2", resp["p1"].page + 1, resp["p1"].pageSize)
    \/ \E p \in Procs : ListRowsOk(p)

SpecList == InitList /\ [][NextList]_vars

(***************************************************************************)
(* The service over a store that does not fail, with the contexts of the   *)
(* Expand requests ending at any time after the handler has answered.      *)
(***************************************************************************)
NextCancel ==
    \/ LiveNext
    \/ \E p \in Resolvers : RequestEnds(p)

SpecCancel == Init /\ [][NextCancel]_vars

(***************************************************************************)
(* Properties.                                                             *)
(***************************************************************************)
\* The stored rows whose long URL is url.
RowsOf(url) == {row \in store : row.url = url}

ShortenDone(p) == pc[p] = "done" /\ req[p].op = "Shorten"
ExpandDone(p) == pc[p] = "done" /\ req[p].op = "Expand"

\* Two handlers whose Shorten calls for the same URL both passed the
\* existence check before either saved, and both have returned from Save.
Raced(p, q) ==
    /\ p # q
    /\ ShortenDone(p) /\ ShortenDone(q)
    /\ req[p].url = req[q].url
    /\ q \in overlap[p] /\ p \in overlap[q]
    /\ "Save" \in calls[p] /\ "Save" \in calls[q]

\* C1 (as amended): once a Shorten of a valid URL has succeeded, every
\* Shorten of that URL that begins afterwards and meets no failure of the
\* store succeeds; every successful Shorten of the URL returns the id and the
\* short code of the first one, and exactly one row holds the URL.
C1_Idempotent ==
    \A p \in Procs :
        (ShortenDone(p) /\ req[p].url \in ValidUrls) =>
            /\ (afterOk[p] /\ cause[p] # "unavailable") => resp[p].ok
            /\ resp[p].ok =>
                  /\ resp[p] = firstOk[req[p].url]
                  /\ Cardinality(RowsOf(req[p].url)) = 1
                  /\ \A row \in RowsOf(req[p].url) :
                        row.urlId = resp[p].urlId /\ row.shortUrl = resp[p].shortUrl

\* A second Shorten of a URL has returned what the first one returned.
C1_Witness ==
    \E p \in Procs :
        /\ ShortenDone(p) /\ afterOk[p] /\ resp[p].ok
        /\ resp[p] = firstOk[req[p].url]
        /\ calls[p] = {"GetByUrl"}

\* C1 as stated: every Shorten of a valid URL succeeds.  It is stated here
\* for a call that ran alone, met no failure of the store and minted an id
\* that no row holds.
C1_EveryShortenSucceeds ==
    \A p \in Procs :
        (/\ ShortenDone(p) /\ req[p].url \in ValidUrls
         /\ overlap[p] = {}
         /\ cause[p] \notin {"unavailable", "race", "id"}) => resp[p].ok

\* C2: no two rows hold the same long URL.
C2_OneRecordPerUrl ==
    \A r1, r2 \in store : r1.url = r2.url => r1 = r2

\* Two Shorten calls of one unseen URL raced, and one row holds the URL.
C2_Witness ==
    \E p, q \in Procs :
        /\ Raced(p, q) /\ resp[p].ok /\ ~resp[q].ok
        /\ Cardinality(RowsOf(req[p].url)) = 1

\* C3 (as amended): of two Shorten calls of one unseen URL that both passed
\* the existence check and both called Save, at most one succeeds, and
\* exactly one does unless the store failed or a row of another URL held the
\* short code or the id; the call whose Save failed answers "failed to save
\* URL" (it never fetches the row again); and every successful Shorten
\* response carries the id and the short code of a stored row of its URL.
C3_CreationRace ==
    /\ \A p, q \in Procs :
          Raced(p, q) =>
              /\ ~(resp[p].ok /\ resp[q].ok)
              /\ (cause[p] \in {"none", "race"} /\ cause[q] \in {"none", "race"})
                    => (resp[p].ok \/ resp[q].ok)
              /\ ~resp[q].ok => resp[q] = Failure("failed to save URL")
    /\ \A p \in Procs :
          (ShortenDone(p) /\ resp[p].ok) =>
              \E row \in store :
                  /\ row.url = req[p].url
                  /\ row.urlId = resp[p].urlId
                  /\ row.shortUrl = resp[p].shortUrl

\* The race has been run: one Save committed, the other met its row.
C3_Witness ==
    \E p, q \in Procs :
        /\ Raced(p, q) /\ resp[p].ok
        /\ cause[q] = "race" /\ resp[q] = Failure("failed to save URL")

\* C3 as stated: exactly one of the two saves succeeds.  It is stated here
\* for saves that met no failure of the store and no clash of ids.
C3_ExactlyOneSaveSucceeds ==
    \A p, q \in Procs :
        (/\ Raced(p, q)
         /\ cause[p] \notin {"unavailable", "id"}
         /\ cause[q] \notin {"unavailable", "id"}) => (resp[p].ok \/ resp[q].ok)

\* C4: no two rows hold the same short code, and no two the same id.
C4_UniqueCodeAndId ==
    \A r1, r2 \in store :
        (r1.shortUrl = r2.shortUrl \/ r1.urlId = r2.urlId) => r1 = r2

\* Two rows are stored, and a Save was refused for an id that a row holds.
C4_Witness ==
    /\ Cardinality(store) = 2
    /\ \E p \in Procs : ShortenDone(p) /\ cause[p] = "id"

\* C5: in the step in which an Expand finds its row, the response carries
\* the long URL, the creation time (rendered in RFC3339) and the click count
\* of the row as stored before the step, the step leaves the table as it is,
\* and the increment is left to the goroutine it starts.
C5_ExpandReadsBeforeIncrement ==
    [][\A p \in Resolvers :
          (nExpands' # nExpands /\ pc'[p] = "done" /\ req'[p].op = "Expand") =>
              /\ store' = store
              /\ pending'[req'[p].shortUrl] = pending[req'[p].shortUrl] + 1
              /\ \E row \in store :
                    /\ row.shortUrl = req'[p].shortUrl
                    /\ resp'[p] = [ok |-> TRUE, originalUrl |-> row.url,
                                   clickCount |-> row.clickCount,
                                   createdAt |-> FormatRFC3339(row.createdAt)]]_vars

\* An Expand has answered with a count of earlier clicks while its own
\* increment has not run.
C5_Witness ==
    \E p \in Resolvers :
        /\ ExpandDone(p) /\ resp[p].ok /\ resp[p].clickCount >= 1
        /\ pending[req[p].shortUrl] >= 1
        /\ \E row \in store :
              row.shortUrl = req[p].shortUrl /\ row.clickCount = resp[p].clickCount

\* The latest Expand of short code c answered with click count n.
ExpandedAt(c, n) ==
    \E p \in Resolvers :
        /\ ExpandDone(p) /\ resp[p].ok
        /\ req[p].shortUrl = c /\ resp[p].clickCount = n

\* C6: when the store does not fail and the goroutine of each Expand is
\* scheduled, an Expand that answered with click count n is followed by a
\* state in which the row of its short code has click count n+1 or more.
C6_IncrementLands ==
    \A c \in ExpandInputs \ {<<>>}, n \in 0..MaxExpands :
        ExpandedAt(c, n) ~> (\E row \in store : row.shortUrl = c /\ row.clickCount >= n + 1)

\* An Expand answered with a count, and the row now holds a higher one.
C6_Witness ==
    \E p \in Resolvers :
        /\ ExpandDone(p) /\ resp[p].ok
        /\ pending[req[p].shortUrl] = 0
        /\ \E row \in store :
              row.shortUrl = req[p].shortUrl /\ row.clickCount = resp[p].clickCount + 1

\* C7: an Expand of the empty short code answers "short URL cannot be
\* empty" without a call of the repository; an Expand of a short code that
\* no row holds answers "short URL not found" when the repository answers;
\* in both cases no goroutine is started and the table is left as it is.
C7_ExpandErrors ==
    [][\A p \in Resolvers, c \in ExpandInputs :
          (/\ pc'[p] = "done"
           /\ req'[p] = [op |-> "Expand", shortUrl |-> c]
           /\ Expand(p, c)) =>
              /\ c = <<>> =>
                    /\ resp'[p] = Failure("short URL cannot be empty")
                    /\ calls'[p] = {}
              /\ (c # <<>> /\ (\A row \in store : row.shortUrl # c)
                           /\ cause'[p] # "unavailable") =>
                    resp'[p] = Failure("short URL not found")
              /\ (c = <<>> \/ \A row \in store : row.shortUrl # c) =>
                    (store' = store /\ pending' = pending /\ ~resp'[p].ok)]_vars

\* An Expand of an unknown short code has failed while rows are stored.
C7_Witness ==
    \E p \in Resolvers :
        /\ ExpandDone(p) /\ req[p].shortUrl # <<>>
        /\ resp[p] = Failure("short URL not found")
        /\ store # {}

\* C8: in every step every stored row keeps or raises its click count, a
\* row that enters the table has click count 0, and no count is negative.
C8_ClickCountMonotone ==
    [][/\ \A row \in store :
             \E r2 \in store' : r2.urlId = row.urlId /\ r2.clickCount >= row.clickCount
       /\ \A r2 \in store' :
             /\ r2.clickCount >= 0
             /\ (\A row \in store : row.urlId # r2.urlId) => r2.clickCount = 0]_vars

\* A row has been clicked twice.
C8_Witness == \E row \in store : row.clickCount >= 2

\* C9: a Shorten of a URL that ValidateURL rejects answers the validator's
\* error in one step, with no call of GetByUrl, generateShortCode or Save,
\* and leaves the table as it is.
C9_InvalidUrlRejected ==
    [][\A p \in Procs, url \in ShortenInputs \ ValidUrls :
          (/\ req'[p] = [op |-> "Shorten", url |-> url]
           /\ pc[p] \in {"idle", "done"}
           /\ Shorten(p, url)) =>
              /\ pc'[p] = "done"
              /\ resp'[p] = Failure(Validated[url])
              /\ calls'[p] = {}
              /\ store' = store]_vars

\* A Shorten of an ftp URL has been rejected while rows are stored.
C9_Witness ==
    \E p \in Procs :
        /\ ShortenDone(p) /\ req[p].url = <<"ftp://", "a">>
        /\ resp[p] = Failure(ErrUnsupportedScheme)
        /\ calls[p] = {}
        /\ store # {}

\* The six rules of the validator, in their order, each as the condition
\* that ValidateURL tests; a string that does not parse has no scheme and no
\* host.
RuleErrors ==
    <<ErrEmpty, ErrMalformed, ErrUnsupportedScheme, ErrMissingHost, ErrTooLong, ErrSchemeOnly>>

Violates(k, r) ==
    CASE k = 1 -> r = <<>>
      [] k = 2 -> ParseRequestURI(r).err
      [] k = 3 -> ParseRequestURI(r).scheme \notin {<<"h", "t", "t", "p">>,
                                                    <<"h", "t", "t", "p", "s">>}
      [] k = 4 -> ParseRequestURI(r).host = <<>>
      [] k = 5 -> ByteLen(r) > MaxURLLength
      [] k = 6 -> AfterScheme(r) = <<>>

FirstViolated(r) ==
    LET ks == {k \in DOMAIN RuleErrors : Violates(k, r)}
    IN  IF ks = {} THEN NoError
        ELSE RuleErrors[CHOOSE k \in ks : \A j \in ks : k <= j]

BareSchemes == {<<"http://">>, <<"https://">>}

\* C11 (as amended): the candidates "http://" and "https://" are rejected
\* with "URL must have a valid host"; a candidate is rejected with "URL must
\* contain more than just the scheme" only when it parses with a host and
\* is blank after both prefixes are stripped, as "https://http://" is.
C11_BareSchemeMissingHost ==
    verdict # "pending" =>
        /\ cand \in BareSchemes => verdict = ErrMissingHost
        /\ verdict = ErrSchemeOnly =>
              /\ cand \notin BareSchemes
              /\ ParseRequestURI(Runes(cand)).host # <<>>
              /\ AfterScheme(Runes(cand)) = <<>>

\* "https://" has been validated and rejected for its host.
C11_Witness ==
    cand = <<"https://">> /\ verdict = ErrMissingHost

\* C11 as stated: "http://" and "https://" are rejected as scheme-only.
C11_BareSchemeIsSchemeOnly ==
    (verdict # "pending" /\ cand \in BareSchemes) => verdict = ErrSchemeOnly

ListDone(p) == pc[p] = "done" /\ req[p].op = "ListUrls"

\* The page and the page size that a ListUrls call is to work with.
WantPage(page) == IF page < 1 THEN 1 ELSE page
WantPageSize(pageSize) == IF pageSize < 1 THEN 10 ELSE IF pageSize > 100 THEN 100 ELSE pageSize

\* C12: a ListUrls call asks the repository for pageSize' rows after the
\* first (page' - 1) * pageSize' and echoes page' and pageSize', where
\* page' is 1 for a page below 1 and pageSize' is 10 for a size below 1 and
\* 100 for a size above 100; it returns at most pageSize' records.
C12_Normalization ==
    \A p \in Procs :
        LET page == WantPage(req[p].page)
            pageSize == WantPageSize(req[p].pageSize)
        IN  /\ (pc[p] = "rows" /\ req[p].op = "ListUrls") =>
                  /\ local[p].limit = pageSize
                  /\ local[p].offset = (page - 1) * pageSize
            /\ (ListDone(p) /\ resp[p].ok) =>
                  /\ resp[p].page = page
                  /\ resp[p].pageSize = pageSize
                  /\ Len(resp[p].urls) <= pageSize

\* A ListUrls call for page 0 with page size 500 has answered as page 1
\* with page size 100, with a record.
C12_Witness ==
    \E p \in Procs :
        /\ ListDone(p) /\ req[p].page = 0 /\ req[p].pageSize = 500
        /\ resp[p].ok /\ resp[p].page = 1 /\ resp[p].pageSize = 100
        /\ Len(resp[p].urls) >= 1

\* C13: when Shorten of L has succeeded with short code c, an Expand of c
\* that the repository answers returns long URL L, and returns click count
\* 0 when no Expand of c was answered before it.
C13_RoundTrip ==
    [][\A p \in Resolvers, L \in ValidUrls :
          (/\ firstOk[L].ok
           /\ pc'[p] = "done"
           /\ req'[p] = [op |-> "Expand", shortUrl |-> firstOk[L].shortUrl]
           /\ Expand(p, firstOk[L].shortUrl)
           /\ cause'[p] # "unavailable") =>
              /\ resp'[p].ok
              /\ resp'[p].originalUrl = L
              /\ nExpands[firstOk[L].shortUrl] = 0 => resp'[p].clickCount = 0]_vars

\* With two records stored, the first Expand of the code of U3 has returned
\* U3 and click count 0.
C13_Witness ==
    \E p \in Resolvers :
        /\ ExpandDone(p) /\ resp[p].ok
        /\ req[p].shortUrl = ShortCodeOf[U3]
        /\ resp[p].originalUrl = U3 /\ resp[p].clickCount = 0
        /\ nExpands[req[p].shortUrl] = 1
        /\ Cardinality(store) = 2

Clash(url) == \E row \in store : row.shortUrl = ShortCodeOf[url] /\ row.url # url

\* C15: while a row of another URL holds the short code of a valid URL, a
\* Shorten of that URL finds no record, generates the code once and calls
\* Save, whose failure it answers with "failed to save URL"; the table is
\* left as it is, and no Shorten of that URL succeeds.
C15_CollisionHandling ==
    [][\A p \in Procs :
          /\ (pc[p] = "save" /\ pc'[p] = "done" /\ Clash(local[p].url)) =>
                /\ resp'[p] = Failure("failed to save URL")
                /\ calls'[p] = {"GetByUrl", "generateShortCode", "Save"}
                /\ store' = store
          /\ \A url \in ValidUrls :
                (/\ Clash(url)
                 /\ pc[p] \in {"idle", "done"}
                 /\ req'[p] = [op |-> "Shorten", url |-> url]
                 /\ Shorten(p, url)) =>
                    /\ store' = store
                    /\ ~resp'[p].ok
                    /\ pc'[p] = "save" \/ cause'[p] = "unavailable"]_vars

\* Shorten of U2 has failed twice, one call after the other, on the code
\* that the row of U1 holds.
C15_Witness ==
    \E p, q \in Procs :
        /\ p # q /\ ShortenDone(p) /\ ShortenDone(q)
        /\ req[p].url = U2 /\ req[q].url = U2
        /\ cause[p] = "code" /\ cause[q] = "code"
        /\ overlap[q] = {}
        /\ resp[q] = Failure("failed to save URL")
        /\ \E row \in store : row.url = U1

\* C16: the records of a ListUrls response are in descending order of
\* createdAt, and when a page and then the page after it have been fetched
\* with the same page size, no record of the later page has a createdAt
\* greater than that of a record of the earlier page, whatever Shorten
\* calls stored between the two fetches.
C16_OrderedAcrossPages ==
    /\ \A p \in Procs :
          (ListDone(p) /\ resp[p].ok) =>
              \A i, j \in DOMAIN resp[p].urls :
                  i < j => resp[p].urls[i].createdAt >= resp[p].urls[j].createdAt
    /\ (/\ ListDone("p1") /\ resp["p1"].ok
        /\ ListDone("p2") /\ resp["p2"].ok
        /\ resp["p2"].page = resp["p1"].page + 1
        /\ resp["p2"].pageSize = resp["p1"].pageSize) =>
          \A i \in DOMAIN resp["p1"].urls, j \in DOMAIN resp["p2"].urls :
              resp["p2"].urls[j].createdAt <= resp["p1"].urls[i].createdAt

\* C17: when no increment fails, the click count of a record and the
\* goroutines of its short code that have not run yet add up to the Expand
\* calls that found the record: once all of them have run, the count is the
\* number of those calls (each record starts at 0).
C17_NoLostUpdates ==
    \A row \in store :
        /\ row.clickCount + pending[row.shortUrl] = nExpands[row.shortUrl]
        /\ pending[row.shortUrl] = 0 => row.clickCount = nExpands[row.shortUrl]

\* Two Expand calls both read click count 0, and both increments have
\* landed.
C17_Witness ==
    \E p \in Resolvers, row \in store :
        /\ ExpandDone(p) /\ resp[p].ok /\ resp[p].clickCount = 0
        /\ row.shortUrl = req[p].shortUrl
        /\ nExpands[row.shortUrl] = 2 /\ pending[row.shortUrl] = 0
        /\ row.clickCount = 2

\* C18: a step raises the goroutines of a short code only by one and only
\* with an Expand that found the record; a goroutine that ends leaves every
\* response as it is and either adds one to the record's count or, when its
\* UPDATE failed, changes nothing and is not run again; and the click count
\* of a record never exceeds the Expand calls that found it, less the
\* goroutines still to run.
C18_AtMostOnce ==
    [][/\ \A c \in ExpandInputs :
             /\ pending'[c] > pending[c] =>
                   (pending'[c] = pending[c] + 1 /\ nExpands'[c] = nExpands[c] + 1)
             /\ pending'[c] < pending[c] =>
                   /\ pending'[c] = pending[c] - 1
                   /\ resp' = resp /\ nExpands' = nExpands
                   /\ \/ store' = store
                      \/ \A row \in store : row.shortUrl = c =>
                            \E r2 \in store' :
                                r2.urlId = row.urlId /\ r2.clickCount = row.clickCount + 1
       /\ \A row \in store' :
             row.clickCount + pending'[row.shortUrl] <= nExpands'[row.shortUrl]]_vars

\* An increment has failed and the click is lost: two Expand calls found
\* the record, no goroutine is left, and the count is 1.
C18_Witness ==
    \E p \in Resolvers, row \in store :
        /\ ExpandDone(p) /\ resp[p].ok /\ row.shortUrl = req[p].shortUrl
        /\ nExpands[row.shortUrl] = 2 /\ pending[row.shortUrl] = 0
        /\ row.clickCount = 1

\* C19: a goroutine that an Expand has started and that has not run yet can
\* run its UPDATE in every state, also when the context of the request
\* that started it has ended.
C19_IncrementNotCancelled ==
    \A c \in ExpandInputs : pending[c] > 0 => ENABLED UpdateClickCountOk(c)

\* The context of an answered Expand has ended while its goroutine has not
\* run yet.
C19_Witness ==
    \E p \in Resolvers :
        /\ ExpandDone(p) /\ resp[p].ok /\ ctxDone[p]
        /\ pending[req[p].shortUrl] > 0
        /\ \E row \in store :
              row.shortUrl = req[p].shortUrl /\ row.clickCount = resp[p].clickCount

\* C20: a Shorten of a valid URL that found no record of the URL, met no
\* failure of the store and no row with its URL or its short code at Save
\* has created its record: the id it minted was the id of no stored row.
C20_FreshIds ==
    \A p \in Procs :
        (/\ ShortenDone(p) /\ req[p].url \in ValidUrls
         /\ "Save" \in calls[p]
         /\ cause[p] \notin {"unavailable", "race", "code"}) => resp[p].ok

\* C21: the offset that ListUrls passes to the repository is not negative
\* and is the product (page' - 1) * pageSize' of the normalized values:
\* divided by pageSize' it gives page' - 1, with no remainder.
C21_OffsetExact ==
    \A p \in Procs :
        (pc[p] = "rows" /\ req[p].op = "ListUrls") =>
            /\ local[p].offset >= 0
            /\ local[p].offset % WantPageSize(req[p].pageSize) = 0
            /\ local[p].offset \div WantPageSize(req[p].pageSize) = WantPage(req[p].page) - 1

\* C22: in every step every stored row stays in the table with its long
\* URL, id, short code and createdAt; a row changes only when a goroutine
\* of its short code runs, and then only in its click count, raised by
\* one, and its lastAccessedAt, set to the time of the update.
C22_RecordsImmutable ==
    [][/\ \A row \in store :
             \E r2 \in store' :
                 /\ r2.url = row.url /\ r2.urlId = row.urlId
                 /\ r2.shortUrl = row.shortUrl /\ r2.createdAt = row.createdAt
       /\ \A row \in store :
             row \notin store' =>
                 /\ pending'[row.shortUrl] = pending[row.shortUrl] - 1
                 /\ [row EXCEPT !.clickCount = row.clickCount + 1,
                                !.lastAccessedAt = now] \in store'
       /\ Cardinality(store') >= Cardinality(store)]_vars

\* Of two stored records one has been clicked and the other has not.
C22_Witness ==
    \E r1, r2 \in store :
        /\ r1.clickCount >= 1 /\ r1.lastAccessedAt > r1.createdAt
        /\ r2.clickCount = 0 /\ r2.shortUrl # r1.shortUrl

\* C23: after every step a stored row has the zero lastAccessedAt exactly
\* when its click count is 0; a row enters the table with count 0 and the
\* zero time; and the two fields change only in one and the same step,
\* which raises the count by one and sets lastAccessedAt to the time of
\* the update, which is not the zero time.
C23_NeverIffZero ==
    [][/\ \A r2 \in store' : (r2.lastAccessedAt = ZeroTime) <=> (r2.clickCount = 0)
       /\ \A r2 \in store' :
             (\A row \in store : row.urlId # r2.urlId) =>
                 r2.clickCount = 0 /\ r2.lastAccessedAt = ZeroTime
       /\ \A row \in store : \A r2 \in store' :
             (r2.urlId = row.urlId /\ r2 # row) =>
                 /\ r2.clickCount = row.clickCount + 1
                 /\ r2.lastAccessedAt = now
                 /\ now # ZeroTime]_vars

\* One stored record has never been accessed and has count 0, another has
\* been clicked and carries the time of its last click.
C23_Witness ==
    \E r1, r2 \in store :
        /\ r1.clickCount = 0 /\ r1.lastAccessedAt = ZeroTime
        /\ r2.clickCount >= 1 /\ r2.lastAccessedAt >= r2.createdAt
        /\ pending[r2.shortUrl] = 0

\* C24: a Shorten of a URL that a stored row holds, and every step of a
\* ListUrls call, leave the table as it is, row for row, and start no
\* goroutine; such a Shorten ends in its one step, without a call of
\* generateShortCode or Save, and a success carries the id and the short
\* code of a stored row of the URL.
C24_ReadOnly ==
    [][/\ \A p \in Procs, url \in ValidUrls :
             (/\ req'[p] = [op |-> "Shorten", url |-> url]
              /\ pc[p] \in {"idle", "done"}
              /\ RowsOf(url) # {}
              /\ Shorten(p, url)) =>
                 /\ store' = store /\ pending' = pending /\ goCtx' = goCtx
                 /\ pc'[p] = "done"
                 /\ calls'[p] = {"GetByUrl"}
                 /\ resp'[p].ok =>
                       \E row \in RowsOf(url) :
                           /\ resp'[p].urlId = row.urlId
                           /\ resp'[p].shortUrl = row.shortUrl
       /\ \A p \in Resolvers :
             (/\ req'[p].op = "ListUrls"
              /\ \/ \E page \in Pages, pageSize \in PageSizes : ListUrls(p, page, pageSize)
                 \/ ListRows(p)) =>
                 store' = store /\ pending' = pending /\ goCtx' = goCtx]_vars

\* A ListUrls call has returned rows and a Shorten of a stored URL has
\* answered from its lookup alone, while a clicked row is stored.
C24_Witness ==
    /\ \E p \in Procs : ListDone(p) /\ resp[p].ok /\ Len(resp[p].urls) >= 1
    /\ \E q \in Procs :
          /\ ShortenDone(q) /\ resp[q].ok /\ calls[q] = {"GetByUrl"}
          /\ RowsOf(req[q].url) # {}
    /\ \E row \in store : row.clickCount >= 1

\* C25: a successful ListUrls response carries as many records as the
\* window of the normalized request cuts out of totalCount rows, which is
\* min(pageSize', max(0, totalCount - offset)), and never more records
\* than totalCount.
C25_CountMatchesRows ==
    \A p \in Procs :
        (ListDone(p) /\ resp[p].ok) =>
            LET offset == (WantPage(req[p].page) - 1) * WantPageSize(req[p].pageSize)
                left == IF resp[p].totalCount > offset THEN resp[p].totalCount - offset ELSE 0
            IN  /\ Len(resp[p].urls) = Min(WantPageSize(req[p].pageSize), left)
                /\ Len(resp[p].urls) <= resp[p].totalCount

====
